---- MODULE Spec2Model ----
(***************************************************************************)
(* Model of src/server.js: an Express endpoint that receives Stripe        *)
(* webhook deliveries and applies them to Appwrite collections (wallets,   *)
(* transactions, payment records).                                         *)
(*                                                                         *)
(* Every delivery is an async task on the Node event loop.  Code between   *)
(* two awaits runs without interruption, so one action of the model is one *)
(* store call together with the code that follows it up to the next await  *)
(* (or up to the response).  Store calls of different deliveries           *)
(* interleave freely.                                                      *)
(***************************************************************************)
EXTENDS Integers, Sequences, FiniteSets

\* ---------------------------------------------------------------- bounds
\* Number of deliveries the processor makes in one behaviour.
MaxDeliveries == 2
\* Number of store calls that may fail in one behaviour.
MaxFailures == 1

Deliveries == 1..MaxDeliveries

\* ------------------------------------------------------- JS number model
\* A JS Number with at most two decimals is kept as a fixed-point integer
\* counting hundredths: the Number 1.5 is 150.  The amounts of the model are
\* multiples of 25 minor units, for which IEEE-754 addition is exact.
Scale == 100

\* An integer literal / integer field as a Number.
Num(n) == n * Scale

\* paymentIntent.amount / 100
DivBy100(x) == x \div 100

AmountToAdd(amount) == DivBy100(Num(amount))

DigitChars == <<"0", "1", "2", "3", "4", "5", "6", "7", "8", "9">>

RECURSIVE IntStr(_)
IntStr(n) ==
    IF n < 10 THEN <<DigitChars[n + 1]>>
    ELSE IntStr(n \div 10) \o <<DigitChars[(n % 10) + 1]>>

\* The decimal digits of a non-negative Number: the shortest decimal, without
\* trailing zeros and without a bare decimal point.
Decimal(x) ==
    LET whole == x \div Scale
        frac  == x % Scale
    IN  IF frac = 0 THEN IntStr(whole)
        ELSE IF frac % 10 = 0
             THEN IntStr(whole) \o <<".", DigitChars[(frac \div 10) + 1]>>
             ELSE IntStr(whole) \o <<".", DigitChars[(frac \div 10) + 1],
                                      DigitChars[(frac % 10) + 1]>>

\* Number.prototype.toString: a minus sign before the digits of a negative
\* Number.
ToString(x) == IF x < 0 THEN <<"-">> \o Decimal(0 - x) ELSE Decimal(x)

DigitVal(c) == CHOOSE k \in 0..9 : DigitChars[k + 1] = c

IsDigit(c) == \E k \in 0..9 : DigitChars[k + 1] = c

RECURSIVE DigitsVal(_)
DigitsVal(s) ==
    IF s = <<>> THEN 0
    ELSE 10 * DigitsVal(SubSeq(s, 1, Len(s) - 1)) + DigitVal(s[Len(s)])

\* parseFloat of an unsigned decimal: <<v>> for the parsed Number v, <<>> for
\* NaN.
ParseUnsigned(s) ==
    LET dots == {i \in 1..Len(s) : s[i] = "."}
        dot  == IF dots = {} THEN Len(s) + 1
                ELSE CHOOSE i \in dots : \A j \in dots : i <= j
        ip   == SubSeq(s, 1, dot - 1)
        fp   == SubSeq(s, dot + 1, Len(s))
        f1   == IF Len(fp) >= 1 THEN DigitVal(fp[1]) ELSE 0
        f2   == IF Len(fp) >= 2 THEN DigitVal(fp[2]) ELSE 0
    IN  IF \/ ip = <<>> /\ fp = <<>>
           \/ \E i \in 1..Len(ip) : ~IsDigit(ip[i])
           \/ \E i \in 1..Len(fp) : ~IsDigit(fp[i])
        THEN <<>>
        ELSE <<DigitsVal(ip) * Scale + 10 * f1 + f2>>

\* parseFloat: an optional minus sign, then the decimal.
ParseFloat(s) ==
    IF s # <<>> /\ s[1] = "-"
    THEN LET v == ParseUnsigned(SubSeq(s, 2, Len(s)))
         IN  IF v = <<>> THEN <<>> ELSE <<0 - v[1]>>
    ELSE ParseUnsigned(s)

\* parseFloat(walletDoc.balance) || 0
CurrentBalance(balance) ==
    LET v == ParseFloat(balance)
    IN  IF v = <<>> \/ v = <<0>> THEN 0 ELSE v[1]

\* Variant: the deposit is subtracted from the balance.
NewBalance_subtracted(balance, amount) ==
    ToString(CurrentBalance(balance) - AmountToAdd(amount))

\* currentBalance + amountToAdd, as the string written to the wallet
NewBalance(balance, amount) == ToString(CurrentBalance(balance) + AmountToAdd(amount))

\* ---------------------------------------------------------------- events
NoUser == "none"
NoPurpose == "none"

Event(sig, type, purpose, user, amount, id) ==
    [sigOK |-> sig, type |-> type, purpose |-> purpose, userId |-> user,
     amount |-> amount, id |-> id, currency |-> "usd", method |-> "card"]

NoEvent == Event(FALSE, "none", NoPurpose, NoUser, 0, "none")

Users == {"u1", "u2"}
PaymentIds == {"pr_1", "pr_2"}
Amounts == {0, 50, 100}

\* The deliveries the processor may make.
Events ==
    \* wallet-purpose successes, with and without a user id
    {Event(TRUE, "payment_intent.succeeded", "wallet", "u1", a, r) :
        a \in Amounts, r \in PaymentIds}
    \cup {Event(TRUE, "payment_intent.succeeded", "wallet", "u2", 100, "pr_2")}
    \cup {Event(TRUE, "payment_intent.succeeded", "wallet", NoUser, 100, "pr_1")}
    \* forged or malformed deliveries
    \cup {Event(FALSE, "payment_intent.succeeded", "wallet", "u1", 100, "pr_1")}
    \* successes without a purpose and with another purpose
    \cup {Event(TRUE, "payment_intent.succeeded", NoPurpose, NoUser, 100, r) :
        r \in PaymentIds}
    \cup {Event(TRUE, "payment_intent.succeeded", "order", "u1", 100, "pr_1")}
    \* failures and other event types
    \cup {Event(TRUE, "payment_intent.payment_failed", NoPurpose, NoUser, 100, "pr_1")}
    \cup {Event(TRUE, "charge.refunded", NoPurpose, NoUser, 100, "pr_1")}

\* ----------------------------------------------------------------- state
VARIABLES
    wallets,        \* APPWRITE_COLLECTION_WALLET_ID, in creation order
    transactions,   \* APPWRITE_COLLECTION_TRANSACTIONS_ID, in creation order
    payments,       \* APPWRITE_COLLECTION_ID, in creation order
    pc,             \* per delivery: the await it is suspended at
    event,          \* per delivery: the event it carries
    walletDoc,      \* per delivery: local walletDoc ($id and balance as read)
    paymentDoc,     \* per delivery: local paymentDoc.$id
    resp,           \* per delivery: the responses sent, in order
    handler,        \* per delivery: the workflow the dispatcher invoked
    storeCalls,     \* per delivery: number of store calls issued
    answered,       \* per delivery: the store calls that were answered, in order
    raised,         \* per delivery: an error was thrown while processing
    failedAt,       \* per delivery: the store call that failed, if any
    doneBefore,     \* per delivery: deliveries answered before it arrived
    snap,           \* per delivery: the store as it was when it arrived
    failures        \* store calls that failed so far

store == <<wallets, transactions, payments>>
locals == <<walletDoc, paymentDoc>>
vars == <<wallets, transactions, payments, pc, event, walletDoc, paymentDoc,
          resp, handler, storeCalls, answered, raised, failedAt, doneBefore, snap,
          failures>>

NoDoc == [id |-> 0, balance |-> <<>>]

PaymentRecord(id) == [paymentId |-> id, paymentStatus |-> "pending", paymentMethod |-> "none"]

\* The payment records are created by the checkout flow, outside this
\* program: two records for pr_1, none for pr_2.
InitialPayments == <<PaymentRecord("pr_1"), PaymentRecord("pr_1")>>

Store == [w |-> wallets, t |-> transactions, p |-> payments]

Init ==
    /\ wallets = <<>>
    /\ transactions = <<>>
    /\ payments = InitialPayments
    /\ pc = [d \in Deliveries |-> "idle"]
    /\ event = [d \in Deliveries |-> NoEvent]
    /\ walletDoc = [d \in Deliveries |-> NoDoc]
    /\ paymentDoc = [d \in Deliveries |-> 0]
    /\ resp = [d \in Deliveries |-> <<>>]
    /\ handler = [d \in Deliveries |-> "none"]
    /\ storeCalls = [d \in Deliveries |-> 0]
    /\ answered = [d \in Deliveries |-> <<>>]
    /\ raised = [d \in Deliveries |-> FALSE]
    /\ failedAt = [d \in Deliveries |-> "none"]
    /\ doneBefore = [d \in Deliveries |-> {}]
    /\ snap = [d \in Deliveries |-> [w |-> <<>>, t |-> <<>>, p |-> <<>>]]
    /\ failures = 0

\* ------------------------------------------------------------ the handler
\* Variant: the signature check is skipped.
ConstructEvent_unverified(e) == TRUE

\* stripe.webhooks.constructEvent: throws unless the signature verifies.
ConstructEvent(e) == e.sigOK

\* Variant: the payment_failed case falls into the generic success workflow.
Route_failedHandled(e) ==
    IF e.type = "payment_intent.succeeded"
    THEN IF e.purpose # NoPurpose
         THEN IF e.purpose = "wallet" THEN "wallet" ELSE "none"
         ELSE "succeeded"
    ELSE IF e.type = "payment_intent.payment_failed" THEN "succeeded" ELSE "none"

\* Variant: every purpose is taken for the wallet purpose.
Route_anyPurpose(e) ==
    IF e.type = "payment_intent.succeeded"
    THEN IF e.purpose # NoPurpose THEN "wallet" ELSE "succeeded"
    ELSE "none"

\* The switch on event.type and metadata.purpose: the workflow to invoke.
Route(e) ==
    IF e.type = "payment_intent.succeeded"
    THEN IF e.purpose # NoPurpose
         THEN IF e.purpose = "wallet" THEN "wallet" ELSE "none"
         ELSE "succeeded"
    ELSE "none"

BadSignatureStatus == 400
OkStatus == 200
ErrorStatus == 500

\* if (!userId) throw
MissingUser(e) == e.userId = NoUser

\* if (amountToAdd <= 0) throw
InvalidAmount(e) == AmountToAdd(e.amount) <= 0

\* The response is sent and the task ends.
Respond(d, status, threw) ==
    /\ resp' = [resp EXCEPT ![d] = Append(@, status)]
    /\ raised' = [raised EXCEPT ![d] = threw]
    /\ pc' = [pc EXCEPT ![d] = "done"]

\* The task issues its next store call and suspends at it.
Await(d, call) ==
    /\ pc' = [pc EXCEPT ![d] = call]
    /\ UNCHANGED <<resp, raised>>

Called(d) == storeCalls' = [storeCalls EXCEPT ![d] = @ + 1]

\* The pending store call of the task is answered.
Answered(d) ==
    /\ Called(d)
    /\ answered' = [answered EXCEPT ![d] = Append(@, pc[d])]

\* A delivery arrives: signature check, dispatch, and the chosen workflow
\* up to its first store call.  Deliveries take the slots in order.
Receive(d, e) ==
    /\ \/ pc[d] = "idle"
       \/ pc[d] = "redelivery" /\ e = event[d]
    /\ \A o \in Deliveries : o < d => pc[o] # "idle"
    /\ event' = [event EXCEPT ![d] = e]
    /\ doneBefore' = [doneBefore EXCEPT ![d] = {o \in Deliveries : pc[o] = "done"}]
    /\ snap' = [snap EXCEPT ![d] = Store]
    /\ IF ~ConstructEvent(e)
       THEN /\ Respond(d, BadSignatureStatus, FALSE)
            /\ UNCHANGED handler
       ELSE /\ handler' = [handler EXCEPT ![d] = Route(e)]
            /\ CASE Route(e) = "wallet" ->
                      IF MissingUser(e)
                      THEN Respond(d, ErrorStatus, TRUE)
                      ELSE Await(d, "walletList")
                 [] Route(e) = "succeeded" -> Await(d, "paymentList")
                 [] OTHER -> Respond(d, OkStatus, FALSE)
    /\ UNCHANGED <<store, locals, storeCalls, answered, failedAt, failures>>

\* Variant: the invalid-amount error is swallowed and acknowledged.
AfterWallet_swallowed(d) ==
    IF InvalidAmount(event[d])
    THEN Respond(d, OkStatus, TRUE)
    ELSE Await(d, "txCreate")

\* After walletDoc is known: the amount check, then the transaction create
\* is issued.
AfterWallet(d) ==
    IF InvalidAmount(event[d])
    THEN Respond(d, ErrorStatus, TRUE)
    ELSE Await(d, "txCreate")

WalletsOf(u) == {i \in 1..Len(wallets) : wallets[i].userId = u}

\* Variant: the last document of the listing is taken.
First_last(S) == CHOOSE i \in S : \A j \in S : i >= j

First(S) == CHOOSE i \in S : \A j \in S : i <= j

\* listDocuments(wallets, userId = ...) answers.
WalletList(d) ==
    /\ pc[d] = "walletList"
    /\ Answered(d)
    /\ LET docs == WalletsOf(event[d].userId)
       IN  IF docs = {}
           THEN /\ Await(d, "walletCreate")
                /\ UNCHANGED walletDoc
           ELSE /\ walletDoc' = [walletDoc EXCEPT ![d] =
                        [id |-> First(docs), balance |-> wallets[First(docs)].balance]]
                /\ AfterWallet(d)
    /\ UNCHANGED <<store, paymentDoc, event, handler, failedAt, doneBefore, snap, failures>>

\* createDocument(wallets, {userId, balance: '0', currency}) answers.
WalletCreate(d) ==
    /\ pc[d] = "walletCreate"
    /\ Answered(d)
    /\ wallets' = Append(wallets, [userId |-> event[d].userId, balance |-> <<"0">>,
                                   currency |-> event[d].currency])
    /\ walletDoc' = [walletDoc EXCEPT ![d] = [id |-> Len(wallets) + 1, balance |-> <<"0">>]]
    /\ AfterWallet(d)
    /\ UNCHANGED <<transactions, payments, paymentDoc, event, handler, failedAt,
                   doneBefore, snap, failures>>

\* createDocument(transactions, {...}) answers; the wallet update is issued.
TxCreate(d) ==
    /\ pc[d] = "txCreate"
    /\ Answered(d)
    /\ transactions' = Append(transactions,
            [walletId |-> walletDoc[d].id, type |-> "deposit",
             amount |-> AmountToAdd(event[d].amount), currency |-> event[d].currency,
             paymentId |-> event[d].id, statutTransfer |-> "completed"])
    /\ Await(d, "walletUpdate")
    /\ UNCHANGED <<wallets, payments, locals, event, handler, failedAt,
                   doneBefore, snap, failures>>

\* updateDocument(wallets, walletDoc.$id, {balance}) answers.
WalletUpdate(d) ==
    /\ pc[d] = "walletUpdate"
    /\ Answered(d)
    /\ wallets' = [wallets EXCEPT ![walletDoc[d].id].balance =
                        NewBalance(walletDoc[d].balance, event[d].amount)]
    /\ Respond(d, OkStatus, FALSE)
    /\ UNCHANGED <<transactions, payments, locals, event, handler, failedAt,
                   doneBefore, snap, failures>>

PaymentsOf(id) == {i \in 1..Len(payments) : payments[i].paymentId = id}

\* listDocuments(payments, paymentId = ...) answers.
PaymentList(d) ==
    /\ pc[d] = "paymentList"
    /\ Answered(d)
    /\ LET docs == PaymentsOf(event[d].id)
       IN  IF docs # {}
           THEN /\ paymentDoc' = [paymentDoc EXCEPT ![d] = First(docs)]
                /\ Await(d, "paymentUpdate")
           ELSE /\ Respond(d, OkStatus, FALSE)
                /\ UNCHANGED paymentDoc
    /\ UNCHANGED <<store, walletDoc, event, handler, failedAt, doneBefore, snap, failures>>

\* updateDocument(payments, paymentDoc.$id, {paymentStatus: 'paid', ...}) answers.
PaymentUpdate(d) ==
    /\ pc[d] = "paymentUpdate"
    /\ Answered(d)
    /\ payments' = [payments EXCEPT ![paymentDoc[d]] =
                        [@ EXCEPT !.paymentStatus = "paid",
                                  !.paymentMethod = event[d].method]]
    /\ Respond(d, OkStatus, FALSE)
    /\ UNCHANGED <<wallets, transactions, locals, event, handler, failedAt,
                   doneBefore, snap, failures>>

StoreCallPcs == {"walletList", "walletCreate", "txCreate", "walletUpdate",
                 "paymentList", "paymentUpdate"}

\* The pending store call rejects: the workflow's catch rethrows and the
\* endpoint's catch answers.
StoreFail(d) ==
    /\ pc[d] \in StoreCallPcs
    /\ failures < MaxFailures
    /\ failures' = failures + 1
    /\ Called(d)
    /\ failedAt' = [failedAt EXCEPT ![d] = pc[d]]
    /\ Respond(d, ErrorStatus, TRUE)
    /\ UNCHANGED <<store, locals, event, handler, answered, doneBefore, snap>>

Next ==
    \E d \in Deliveries :
        \/ \E e \in Events : Receive(d, e)
        \/ WalletList(d)
        \/ WalletCreate(d)
        \/ TxCreate(d)
        \/ WalletUpdate(d)
        \/ PaymentList(d)
        \/ PaymentUpdate(d)
        \/ StoreFail(d)

Spec == Init /\ [][Next]_vars

\* The processor schedules a new delivery of an event that was answered with
\* a non-2xx status; the new request starts from fresh task state.
Redeliver(d) ==
    /\ pc[d] = "done"
    /\ resp[d] # <<>>
    /\ resp[d][Len(resp[d])] \notin 200..299
    /\ pc' = [pc EXCEPT ![d] = "redelivery"]
    /\ resp' = [resp EXCEPT ![d] = <<>>]
    /\ raised' = [raised EXCEPT ![d] = FALSE]
    /\ handler' = [handler EXCEPT ![d] = "none"]
    /\ storeCalls' = [storeCalls EXCEPT ![d] = 0]
    /\ answered' = [answered EXCEPT ![d] = <<>>]
    /\ failedAt' = [failedAt EXCEPT ![d] = "none"]
    /\ walletDoc' = [walletDoc EXCEPT ![d] = NoDoc]
    /\ paymentDoc' = [paymentDoc EXCEPT ![d] = 0]
    /\ UNCHANGED <<store, event, doneBefore, snap, failures>>

\* A store call of the task is answered without failure.
StoreAnswer(d) ==
    \/ WalletList(d)
    \/ WalletCreate(d)
    \/ TxCreate(d)
    \/ WalletUpdate(d)
    \/ PaymentList(d)
    \/ PaymentUpdate(d)

NextLive ==
    \/ Next
    \/ \E d \in Deliveries : Redeliver(d)

\* Every pending store call is answered in the end, and the processor makes
\* every redelivery it owes; store calls fail at most MaxFailures times.
LiveSpec ==
    /\ Init
    /\ [][NextLive]_vars
    /\ \A d \in Deliveries :
          /\ WF_vars(StoreAnswer(d))
          /\ WF_vars(Redeliver(d))
          /\ WF_vars(pc[d] = "redelivery" /\ Receive(d, event[d]))

TypeOK ==
    /\ \A d \in Deliveries : pc[d] \in StoreCallPcs \cup {"idle", "done", "redelivery"}
    /\ failures \in 0..MaxFailures

\* ------------------------------------------------------ claim vocabulary
SucceededWallet(e) ==
    e.sigOK /\ e.type = "payment_intent.succeeded" /\ e.purpose = "wallet"

ValidDeposit(e) == SucceededWallet(e) /\ e.userId # NoUser /\ e.amount > 0

Arrived == {d \in Deliveries : pc[d] # "idle"}

Acknowledged(d) == pc[d] = "done" /\ resp[d] = <<200>>

\* d1 was answered before d2 arrived
Before(d1, d2) == d1 \in doneBefore[d2]

Concurrent(d1, d2) == d1 # d2 /\ ~Before(d1, d2) /\ ~Before(d2, d1)

\* no other delivery was in progress while d was
Alone(d) == \A o \in Arrived \ {d} : Before(o, d) \/ Before(d, o)

DepositsFor(r) ==
    {i \in 1..Len(transactions) :
        /\ transactions[i].paymentId = r
        /\ transactions[i].type = "deposit"
        /\ transactions[i].statutTransfer = "completed"}

HadWallet(d) == \E i \in 1..Len(snap[d].w) : snap[d].w[i].userId = event[d].userId

\* The balance a wallet holds after deposits worth `minor` minor units, in
\* the ledger's own unit.
Credited(minor) == ToString(AmountToAdd(minor))

\* C1: when a verified, valid wallet deposit has been fully applied and the
\* same event is delivered again afterwards, the second delivery changes
\* nothing: the wallets are as they were when it arrived and exactly one
\* deposit Transaction carries the payment reference.
C1_RedeliveryIdempotent ==
    \A d1, d2 \in Deliveries :
        ( /\ Before(d1, d2)
          /\ Acknowledged(d1)
          /\ ValidDeposit(event[d1])
          /\ event[d2] = event[d1]
          /\ pc[d2] = "done"
          /\ Alone(d2) )
        => /\ wallets = snap[d2].w
           /\ Cardinality(DepositsFor(event[d2].id)) = 1

\* C2: two concurrent deliveries of the same valid deposit for a user without
\* a wallet end with one Wallet for the user, one deposit Transaction for the
\* reference, and a balance of one deposit.
C2_ConcurrentRedelivery ==
    \A d1, d2 \in Deliveries :
        ( /\ Concurrent(d1, d2)
          /\ Arrived = {d1, d2}
          /\ ValidDeposit(event[d1])
          /\ event[d2] = event[d1]
          /\ ~HadWallet(d1) /\ ~HadWallet(d2)
          /\ Acknowledged(d1) /\ Acknowledged(d2) )
        => /\ Cardinality(WalletsOf(event[d1].userId)) = 1
           /\ Cardinality(DepositsFor(event[d1].id)) = 1
           /\ \A i \in WalletsOf(event[d1].userId) :
                wallets[i].balance = Credited(event[d1].amount)

\* C3: N concurrent valid deposits of the same amount for one user, with
\* pairwise distinct payment references, leave the user's wallet with a
\* balance of N deposits.  (Stated for the runs that made a single wallet, so
\* that a violation is a lost balance update.)
C3_NoLostUpdate ==
    \A u \in Users, a \in Amounts :
        ( /\ Cardinality(Arrived) >= 2
          /\ \A d \in Arrived :
                /\ ValidDeposit(event[d])
                /\ event[d].userId = u
                /\ event[d].amount = a
                /\ Acknowledged(d)
          /\ \A d1, d2 \in Arrived :
                d1 # d2 => event[d1].id # event[d2].id /\ Concurrent(d1, d2)
          /\ Cardinality(WalletsOf(u)) = 1 )
        => \A i \in WalletsOf(u) :
                wallets[i].balance = Credited(a * Cardinality(Arrived))

\* C4: a succeeded wallet-purpose event whose amount is 0 or whose user id is
\* missing creates no Wallet and no Transaction.
C4_RejectionWithoutMutation ==
    \A d \in Deliveries :
        ( /\ pc[d] = "done"
          /\ SucceededWallet(event[d])
          /\ (event[d].amount = 0 \/ event[d].userId = NoUser)
          /\ Alone(d) )
        => /\ wallets = snap[d].w
           /\ transactions = snap[d].t

\* C5: at most one Wallet exists per userId in every reachable state.
C5_OneWalletPerUser ==
    \A u \in Users : Cardinality(WalletsOf(u)) <= 1

\* C6: if the store fails after the deposit Transaction was written and
\* before the balance update, and the same event is redelivered and succeeds,
\* there is exactly one deposit Transaction for the reference and the balance
\* was raised once by the amount.
C6_RetryAfterPartialApplication ==
    \A d1, d2 \in Deliveries :
        ( /\ Arrived = {d1, d2}
          /\ Before(d1, d2)
          /\ failedAt[d1] = "walletUpdate"
          /\ ValidDeposit(event[d1])
          /\ event[d2] = event[d1]
          /\ Acknowledged(d2) )
        => /\ Cardinality(DepositsFor(event[d1].id)) = 1
           /\ \A i \in WalletsOf(event[d1].userId) :
                wallets[i].balance = Credited(event[d1].amount)

\* C7: every delivery gets exactly one response once it is handled and none
\* before; the status is 400 when the signature check fails, 500 when an
\* error was raised while processing, and 200 otherwise.
C7_OneResponsePerDelivery ==
    \A d \in Deliveries :
        /\ Len(resp[d]) <= 1
        /\ pc[d] = "done" <=> Len(resp[d]) = 1
        /\ pc[d] = "done" =>
              resp[d][1] = IF ~event[d].sigOK THEN 400
                           ELSE IF raised[d] THEN 500
                           ELSE 200

C7_Witness ==
    \E d1, d2 \in Deliveries :
        /\ resp[d1] = <<500>> /\ failedAt[d1] = "txCreate"
        /\ resp[d2] = <<200>> /\ ValidDeposit(event[d2])

\* C8: a delivery whose signature does not verify invokes no workflow, makes
\* no store call, and is answered with 400.
C8_BadSignature ==
    \A d \in Deliveries :
        (pc[d] # "idle" /\ ~event[d].sigOK)
        => /\ pc[d] = "done"
           /\ resp[d] = <<400>>
           /\ handler[d] = "none"
           /\ storeCalls[d] = 0
           /\ raised[d] = FALSE

C8_Witness ==
    \E d \in Deliveries :
        /\ pc[d] = "done"
        /\ ~event[d].sigOK
        /\ event[d].purpose = "wallet"
        /\ resp[d] = <<400>>

\* C9: a verified succeeded wallet-purpose event with a missing user id or a
\* non-positive amount is acknowledged with 200 and mutates no wallet and no
\* transaction.
C9_ValidationAcknowledged ==
    \A d \in Deliveries :
        ( /\ pc[d] = "done"
          /\ SucceededWallet(event[d])
          /\ (event[d].userId = NoUser \/ event[d].amount <= 0)
          /\ failedAt[d] = "none" )
        => /\ resp[d] = <<200>>
           /\ Alone(d) => (wallets = snap[d].w /\ transactions = snap[d].t)

\* C10: handling a verified payment_intent.payment_failed event leaves the
\* wallets, transactions and payment records as they are and answers 200
\* at once.
C10_FailedPaymentNoChange ==
    [][ \A d \in Deliveries :
          ( /\ pc[d] = "idle" /\ pc'[d] # "idle"
            /\ event'[d].sigOK
            /\ event'[d].type = "payment_intent.payment_failed" )
          => /\ store' = store
             /\ pc'[d] = "done"
             /\ resp'[d] = <<200>>
             /\ storeCalls'[d] = 0 ]_vars

C10_Witness ==
    \E d \in Deliveries :
        /\ pc[d] = "done"
        /\ event[d].sigOK
        /\ event[d].type = "payment_intent.payment_failed"
        /\ resp[d] = <<200>>
        /\ payments = InitialPayments

\* C11: a verified event of another type, or a succeeded event with a purpose
\* other than "wallet", is answered 200 at once, invokes no workflow and makes
\* no store call.
Ignored(e) ==
    /\ e.sigOK
    /\ \/ e.type \notin {"payment_intent.succeeded", "payment_intent.payment_failed"}
       \/ e.type = "payment_intent.succeeded" /\ e.purpose \notin {NoPurpose, "wallet"}

C11_IgnoredEventsNoChange ==
    \A d \in Deliveries :
        (pc[d] # "idle" /\ Ignored(event[d]))
        => /\ pc[d] = "done"
           /\ resp[d] = <<200>>
           /\ handler[d] = "none"
           /\ storeCalls[d] = 0
           /\ answered[d] = <<>>

C11_Witness ==
    \E d1, d2 \in Deliveries :
        /\ Acknowledged(d1) /\ event[d1].type = "charge.refunded"
        /\ Acknowledged(d2) /\ event[d2].purpose = "order"
        /\ Store = [w |-> <<>>, t |-> <<>>, p |-> InitialPayments]

RECURSIVE SumAmounts(_)
SumAmounts(S) ==
    IF S = {} THEN 0
    ELSE LET d == CHOOSE x \in S : TRUE
         IN  event[d].amount + SumAmounts(S \ {d})

\* the Number a balance string stands for, <<>> when it is not a number
BalanceOf(i) == ParseFloat(wallets[i].balance)

\* C12: valid deposits with pairwise distinct references for one user, applied
\* one after another from a state without wallets, leave one Wallet whose
\* balance is the sum of the amounts, and one deposit Transaction per
\* reference, each owned by that wallet.
C12_SequentialAccumulation ==
    \A u \in Users :
        ( /\ Arrived # {}
          /\ \A d \in Arrived :
                ValidDeposit(event[d]) /\ event[d].userId = u /\ Acknowledged(d)
          /\ \A d1, d2 \in Arrived :
                d1 # d2 => /\ event[d1].id # event[d2].id
                           /\ (Before(d1, d2) \/ Before(d2, d1)) )
        => /\ Cardinality(WalletsOf(u)) = 1
           /\ \A i \in WalletsOf(u) :
                /\ BalanceOf(i) = <<Num(SumAmounts(Arrived))>>
                /\ \A t \in 1..Len(transactions) : transactions[t].walletId = i
           /\ Len(transactions) = Cardinality(Arrived)
           /\ \A d \in Arrived : Cardinality(DepositsFor(event[d].id)) = 1

\* C13: every Wallet's balance is a number greater than or equal to 0 in
\* every reachable state.
C13_NonNegativeBalance ==
    \A i \in 1..Len(wallets) :
        /\ BalanceOf(i) # <<>>
        /\ BalanceOf(i)[1] >= 0

C13_Witness ==
    \E i \in 1..Len(wallets) :
        /\ wallets[i].balance = <<"1", ".", "5">>
        /\ Len(transactions) = 2

\* the deliveries other than d were all answered before d arrived
Latest(d) == \A o \in Arrived \ {d} : Before(o, d)

BalanceBefore(d) ==
    LET S == {i \in 1..Len(snap[d].w) : snap[d].w[i].userId = event[d].userId}
    IN  IF S = {} THEN <<0>> ELSE ParseFloat(snap[d].w[First(S)].balance)

\* C14: applying a wallet deposit of m minor units records a Transaction
\* whose amount is m and raises the stored balance by exactly m.
C14_IntegerMinorUnits ==
    \A d \in Deliveries :
        (Acknowledged(d) /\ ValidDeposit(event[d]) /\ Latest(d))
        => /\ Len(transactions) = Len(snap[d].t) + 1
           /\ transactions[Len(transactions)].amount = Num(event[d].amount)
           /\ \A i \in WalletsOf(event[d].userId) :
                i = First(WalletsOf(event[d].userId))
                => BalanceOf(i) = <<BalanceBefore(d)[1] + Num(event[d].amount)>>

\* A store call that looks a deposit Transaction up by its payment reference.
IsGuardCheck(call) == call = "txList"

IsMutation(call) == call \in {"walletCreate", "txCreate", "walletUpdate"}

\* C15: in the wallet workflow every answered mutation (wallet create,
\* transaction create, wallet update) of a delivery comes after a lookup of
\* the deposit Transaction with the event's payment reference by that delivery.
C15_GuardCheckFirst ==
    \A d \in Deliveries :
        \A k \in 1..Len(answered[d]) :
            IsMutation(answered[d][k])
            => \E j \in 1..(k - 1) : IsGuardCheck(answered[d][j])

\* C16: a wallet balance update is applied only when the stored balance still
\* equals the balance the workflow read.
C16_OptimisticBalanceWrite ==
    [][ \A d \in Deliveries :
          ( /\ pc[d] = "walletUpdate"
            /\ wallets' # wallets
            /\ Len(answered'[d]) = Len(answered[d]) + 1 )
          => wallets[walletDoc[d].id].balance = walletDoc[d].balance ]_vars

RECURSIVE SumTransactions(_)
SumTransactions(S) ==
    IF S = {} THEN 0
    ELSE LET t == CHOOSE x \in S : TRUE
         IN  transactions[t].amount + SumTransactions(S \ {t})

CompletedDepositsOf(i) ==
    {t \in 1..Len(transactions) :
        /\ transactions[t].walletId = i
        /\ transactions[t].type = "deposit"
        /\ transactions[t].statutTransfer = "completed"}

Quiescent == \A d \in Deliveries : pc[d] \in {"idle", "done"}

\* C18: when no wallet workflow is in progress, each Wallet's balance equals
\* the sum of the amounts of the completed deposit Transactions of that wallet.
C18_LedgerMatchesBalance ==
    Quiescent =>
        \A i \in 1..Len(wallets) :
            BalanceOf(i) = <<SumTransactions(CompletedDepositsOf(i))>>

\* C19: no balance write stores a value below the balance stored just before
\* the write.
C19_BalanceNeverDecreases ==
    [][ \A i \in 1..Len(wallets) :
          ParseFloat(wallets'[i].balance)[1] >= ParseFloat(wallets[i].balance)[1] ]_vars

NoPurposeSuccess(e) ==
    e.sigOK /\ e.type = "payment_intent.succeeded" /\ e.purpose = NoPurpose

\* The payment records after the no-purpose successes acknowledged so far: the
\* first record of each acknowledged payment intent is paid, the others are
\* as they were.
ExpectedPayments ==
    [i \in 1..Len(InitialPayments) |->
        IF \E d \in Deliveries :
              /\ Acknowledged(d) /\ NoPurposeSuccess(event[d])
              /\ InitialPayments[i].paymentId = event[d].id
              /\ \A j \in 1..(i - 1) : InitialPayments[j].paymentId # event[d].id
        THEN [paymentId |-> InitialPayments[i].paymentId, paymentStatus |-> "paid",
              paymentMethod |-> "card"]
        ELSE InitialPayments[i]]

\* C20: a succeeded event without a purpose marks the first payment record of
\* its payment intent paid, creates no record, calls only the payment
\* collection, and any number of applications leaves the records as one
\* application does.
C20_NoPurposeIdempotent ==
    /\ payments = ExpectedPayments
    /\ \A d \in Deliveries :
          (pc[d] # "idle" /\ NoPurposeSuccess(event[d]))
          => /\ handler[d] = "succeeded"
             /\ \A k \in 1..Len(answered[d]) :
                    answered[d][k] \in {"paymentList", "paymentUpdate"}

C20_Witness ==
    \E d1, d2 \in Deliveries :
        /\ d1 # d2
        /\ Acknowledged(d1) /\ Acknowledged(d2)
        /\ NoPurposeSuccess(event[d1]) /\ event[d2] = event[d1]
        /\ answered[d1] = <<"paymentList", "paymentUpdate">>
        /\ answered[d2] = <<"paymentList", "paymentUpdate">>
        /\ payments[1].paymentStatus = "paid"
        /\ payments[2].paymentStatus = "pending"

DistinctReferences ==
    \A d1, d2 \in Arrived : d1 # d2 => event[d1].id # event[d2].id

AcknowledgedDeposits(u) ==
    {d \in Deliveries :
        Acknowledged(d) /\ ValidDeposit(event[d]) /\ event[d].userId = u}

\* the user's wallet, as every later lookup sees it, holds the deposits
\* acknowledged so far
Reflected(u) ==
    /\ WalletsOf(u) # {}
    /\ BalanceOf(First(WalletsOf(u))) =
            <<AmountToAdd(SumAmounts(AcknowledgedDeposits(u)))>>

\* C17: with redelivery of every delivery answered non-2xx and finitely many
\* store failures, every valid wallet deposit is acknowledged with 200 in the
\* end, and the user's wallet balance holds every acknowledged deposit.
C17_EventualApplication ==
    /\ \A d \in Deliveries :
          (pc[d] # "idle" /\ ValidDeposit(event[d])) ~> Acknowledged(d)
    /\ [](\A d \in Deliveries :
            (DistinctReferences /\ Acknowledged(d) /\ ValidDeposit(event[d]))
            => Reflected(event[d].userId))

\* the acknowledgement half of C17 on its own
EventuallyAcknowledged ==
    \A d \in Deliveries :
        (pc[d] # "idle" /\ ValidDeposit(event[d])) ~> Acknowledged(d)

====
